---- MODULE Spec2Model ----
(***************************************************************************)
(* Decision Ledger: the authenticated HTTP client of frontend/lib/api.ts.  *)
(* apiRequest with its in-flight GET registry, timeout timer, external     *)
(* abort signal and response decoding, as a state machine over the calls   *)
(* made by page components and the events of the browser runtime.          *)
(***************************************************************************)
EXTENDS Integers, Sequences, FiniteSets, TLC

(* ------------------------------ bounds -------------------------------- *)

\* number of apiRequest calls made in one behaviour of Spec
MaxCalls == 3

\* number of apiRequest calls made in one behaviour of LiveSpec
MaxLiveCalls == 2

\* number of apiRequest calls made in one behaviour of WireSpec
MaxWireCalls == 1

\* number of times the session changes in one behaviour of WireSpec and
\* of AuthSpec
MaxSessionChanges == 1

\* number of apiRequest calls made in one behaviour of AuthSpec
MaxAuthCalls == 2

\* number of apiRequest calls made in one behaviour of OptsSpec
MaxOptsCalls == 2

(* ------------------------------ inputs -------------------------------- *)

API_BASE == "http://127.0.0.1:8000"

\* opts.timeoutMs: not given, or a number of milliseconds
NoTimeout == {}

\* the calls page code makes:
\* <<method, path, body, whether opts.signal is given, opts.timeoutMs>>
CoreRequests ==
    {<<"GET", "/workspaces", "undefined", TRUE, NoTimeout>>,
     <<"GET", "/decisions/d1", "undefined", FALSE, NoTimeout>>}
Requests ==
    {<<"GET", "/workspaces", "undefined", TRUE, NoTimeout>>,
     <<"GET", "/workspaces", "undefined", FALSE, NoTimeout>>,
     <<"GET", "/decisions/d1", "undefined", FALSE, NoTimeout>>,
     <<"POST", "/workspaces", "obj", FALSE, NoTimeout>>}
WireRequests ==
    {<<"GET", "/workspaces", "undefined", FALSE, NoTimeout>>,
     <<"POST", "/workspaces", "obj", FALSE, NoTimeout>>,
     <<"POST", "/workspaces", "undefined", FALSE, NoTimeout>>,
     <<"DELETE", "/decisions/d1", "undefined", FALSE, NoTimeout>>}

OptsRequests ==
    {<<"GET", "/workspaces", "undefined", TRUE, NoTimeout>>,
     <<"GET", "/workspaces", "undefined", TRUE, {5000}>>}
AuthRequests ==
    {<<"GET", "/workspaces", "undefined", FALSE, NoTimeout>>,
     <<"POST", "/workspaces", "obj", FALSE, NoTimeout>>}

\* a body that is not passed; "obj" stands for the object {}
Undefined == "undefined"

\* JSON.stringify of a request body
JSONStringify(body) == IF body = "obj" THEN "{}" ELSE body

\* `${API_BASE}${path}`
Url(path) ==
    CASE path = "/workspaces" -> "http://127.0.0.1:8000/workspaces"
      [] path = "/workspaces/w1/decisions" ->
            "http://127.0.0.1:8000/workspaces/w1/decisions"
      [] path = "/decisions/d1" -> "http://127.0.0.1:8000/decisions/d1"
      [] path = "/decisions/d1/details" ->
            "http://127.0.0.1:8000/decisions/d1/details"
      [] path = "/decisions/d1/options" ->
            "http://127.0.0.1:8000/decisions/d1/options"
      [] path = "/options/o1" -> "http://127.0.0.1:8000/options/o1"
      [] path = "/options/o404" -> "http://127.0.0.1:8000/options/o404"
      [] path = "/options/o3" -> "http://127.0.0.1:8000/options/o3"
      [] path = "/options/o4" -> "http://127.0.0.1:8000/options/o4"
      [] path = "/options/o5" -> "http://127.0.0.1:8000/options/o5"
      [] path = "/options/o1/choose" -> "http://127.0.0.1:8000/options/o1/choose"
      [] path = "/options/o404/choose" ->
            "http://127.0.0.1:8000/options/o404/choose"
      [] path = "/options/o3/choose" -> "http://127.0.0.1:8000/options/o3/choose"
      [] path = "/options/o4/choose" -> "http://127.0.0.1:8000/options/o4/choose"
      [] path = "/options/o5/choose" -> "http://127.0.0.1:8000/options/o5/choose"

\* what supabase.auth.getSession() yields: an access token or none
NoToken == "none"
Tokens == {NoToken, "tokA"}

\* response statuses and response body texts the backend may send
Unreadable == "<unreadable>"
Statuses == {200, 500}
RespBodies == {"boom"}
WireStatuses == {200, 204, 401, 500}
AuthStatuses == {200, 401}
AuthRespBodies == {"[1]"}
WireRespBodies == {"", "[1]", "boom", "Unauthorized", Unreadable}

(* ------------------------------ state --------------------------------- *)

VARIABLES
    calls,      \* the apiRequest invocations so far, in call order
    runs,       \* starter call id -> the `run` promise and its locals
    inflight,   \* the module-level Map: key -> starter call id of its promise
    regLog,     \* history: <<call id, registry operation>> performed
    session,    \* the session provider's current access token, or none
    changes,    \* history: number of session changes so far
    page        \* the React state of the mounted page component, with the
                \* async handlers of it that are suspended in an await

vars == <<calls, runs, inflight, regLog, session, changes, page>>

\* the state of lib/api.ts
apiVars == <<calls, runs, inflight, regLog, session, changes>>

CallIds == 1..Len(calls)
RunIds == DOMAIN runs

Pending == [kind |-> "pending", value |-> <<>>, message |-> <<>>]
Ok(v) == [kind |-> "ok", value |-> v, message |-> <<>>]
Err(m) == [kind |-> "error", value |-> <<>>, message |-> m]

(* ------------------------- pure helpers ------------------------------- *)

\* faulty variant of Key: the fingerprint of a GET includes the session's
\* token at the time of the call
Key_WithToken(method, path, body) ==
    IF method = "GET"
    THEN <<method, Url(path), session>>
    ELSE <<method, Url(path), IF body # Undefined THEN JSONStringify(body) ELSE "">>

\* api.ts:58-61
Key(method, path, body) ==
    IF method = "GET"
    THEN <<method, Url(path)>>
    ELSE <<method, Url(path), IF body # Undefined THEN JSONStringify(body) ELSE "">>

\* api.ts:64, the left conjunct: only a GET looks into the registry
ReadsRegistry(method) == method = "GET"

\* faulty variant of Dedupes: the in-flight promise is never reused
Dedupes_Never(method, key) == FALSE

\* api.ts:64
Dedupes(method, key) == ReadsRegistry(method) /\ key \in DOMAIN inflight

\* faulty variants of RegistersRun: every method registers; none does
RegistersRun_AnyMethod(method) == TRUE
RegistersRun_Never(method) == FALSE

\* api.ts:130
RegistersRun(method) == method = "GET"

\* faulty variant of DeletesKey: the finally block is missing
DeletesKey_Never(method) == FALSE

\* api.ts:135
DeletesKey(method) == method = "GET"

\* faulty variant of AccessToken: the token of the first request is kept
\* and reused by the requests after it
AccessToken_Cached(sessionToken) ==
    LET sent == {r \in RunIds : runs[r].phase # "auth"} IN
    IF sent = {} THEN sessionToken
    ELSE runs[CHOOSE r \in sent : \A q \in sent : r <= q].token

\* api.ts:36-38: the token is read from the session just queried
AccessToken(sessionToken) == sessionToken

\* faulty variant of AuthHeaders: the Authorization header is always sent
AuthHeaders_Always(token, body) ==
    (IF body # Undefined THEN "Content-Type" :> <<"application/json">> ELSE <<>>)
    @@ ("Authorization" :> <<"Bearer", token>>)

\* api.ts:35-46 with the argument of lines 69-71: the headers sent, name
\* to value; the extra headers are spread over the Authorization header
AuthHeaders(token, body) ==
    (IF body # Undefined THEN "Content-Type" :> <<"application/json">> ELSE <<>>)
    @@ (IF token # NoToken THEN "Authorization" :> <<"Bearer", token>> ELSE <<>>)

\* api.ts:55
DefaultTimeoutMs == 12000
TimeoutMs(optsTimeoutMs) ==
    IF optsTimeoutMs = NoTimeout THEN DefaultTimeoutMs
    ELSE CHOOSE ms \in optsTimeoutMs : TRUE

\* faulty variant of ArmedTimer: no timeout is set
ArmedTimer_Missing == "unset"

\* api.ts:80: setTimeout arms the timer
ArmedTimer == "armed"

\* faulty variant of FetchFinally: the listener stays on the caller's signal
FetchFinally_KeepsListener(run) == [run EXCEPT !.timer = "cleared"]

\* api.ts:102-105: what the finally of the fetch leaves of timer and listener
FetchFinally(run) == [run EXCEPT !.timer = "cleared", !.listener = FALSE]

\* Response.ok
ResOk(status) == status >= 200 /\ status <= 299

\* api.ts:99
TimeoutMessage(method, url) == <<"API timeout/abort ->", method, url>>

\* api.ts:101
NetworkMessage(method, url) == <<"Network error ->", method, url>>

\* faulty variants of CatchMessage: every failure is a network error; the
\* two causes are swapped
CatchMessage_AlwaysNetwork(errName, method, url) == NetworkMessage(method, url)
CatchMessage_Swapped(errName, method, url) ==
    IF errName = "AbortError"
    THEN NetworkMessage(method, url)
    ELSE TimeoutMessage(method, url)

\* api.ts:98-101
CatchMessage(errName, method, url) ==
    IF errName = "AbortError"
    THEN TimeoutMessage(method, url)
    ELSE NetworkMessage(method, url)

\* faulty variant of TextOrEmpty: the catch is missing, and the failed
\* read is passed on
TextOrEmpty_NoCatch(body) == body

\* res.text().catch(() => "")
TextOrEmpty(body) == IF body = Unreadable THEN "" ELSE body

\* faulty variant of NoContent: a 204 is decoded like any other response
NoContent_Never(status) == FALSE

\* api.ts:118
NoContent(status) == status = 204

\* faulty variant of ApiMessage: the body text is left out
ApiMessage_NoText(status, url, text) ==
    IF status = 401
    THEN <<"API error:", "401", "Unauthorized", url>>
    ELSE <<"API error:", ToString(status), url>>

\* api.ts:111-115
ApiMessage(status, url, text) ==
    IF status = 401
    THEN <<"API error:", "401", "Unauthorized", url>>
    ELSE <<"API error:", ToString(status), url, text>>

\* JSON.parse: of the modelled texts only "[1]" is valid JSON
IsJson(text) == text = "[1]"
JSONParse(text) == <<"json", "array(1)">>

\* faulty variant of Decode: a text that is not JSON fails the call
Decode_Throws(body) ==
    LET text == TextOrEmpty(body) IN
    IF text = "" THEN Ok(<<"null">>)
    ELSE IF IsJson(text) THEN Ok(JSONParse(text))
    ELSE Err(<<"SyntaxError">>)

\* api.ts:120-127
Decode(body) ==
    LET text == TextOrEmpty(body) IN
    IF text = "" THEN Ok(<<"null">>)
    ELSE IF IsJson(text) THEN Ok(JSONParse(text))
    ELSE Ok(<<"text", text>>)

\* String.prototype.toLowerCase on the words of the modelled messages
ToLowerCase(word) ==
    CASE word = "Unauthorized" -> "unauthorized"
      [] word = "API error:" -> "api error:"
      [] OTHER -> word

\* msg.includes(" 401 "): the word 401 with a blank on either side; the
\* words of a message are joined by single blanks
Includes401(message) ==
    \E i \in 2..(Len(message) - 1) : message[i] = "401"

\* msg.toLowerCase().includes("unauthorized"): of the modelled words only
\* Unauthorized holds that text
IncludesUnauthorized(message) ==
    \E i \in DOMAIN message : ToLowerCase(message[i]) = "unauthorized"

\* page.tsx:357, the callers' test for "not signed in"
LooksUnauthorized(message) ==
    Includes401(message) \/ IncludesUnauthorized(message)

(* --------------------- the runtime's job discipline ------------------- *)

\* promise reactions that are queued and have not run yet
RunJobPending(r) == runs[r].phase \in {"rejected", "settled"}
JoinJobPending(c) ==
    /\ ~calls[c].settled
    /\ calls[c].run # c
    /\ runs[calls[c].run].phase = "done"

\* every promise returned by apiRequest has settled
AllSettled == \A c \in CallIds : calls[c].settled

\* a task (timer, network event) starts only on an empty microtask queue
TaskMayRun ==
    /\ \A r \in RunIds : ~RunJobPending(r)
    /\ \A c \in CallIds : ~JoinJobPending(c)

\* page code runs in its own task, or in the job that aborted a signal and
\* the jobs it queues: between the reactions that abort queued
UserMayRun ==
    /\ \A r \in RunIds : RunJobPending(r) => runs[r].byUser
    /\ \A c \in CallIds : JoinJobPending(c) => runs[calls[c].run].byUser

\* no page component is mounted: lib/api.ts is called directly
NoPage == [view |-> "none"]

(* ------------------------------ Init ---------------------------------- *)

ApiInit ==
    /\ calls = <<>>
    /\ runs = <<>>
    /\ inflight = <<>>
    /\ regLog = {}
    /\ session = NoToken
    /\ changes = 0

Init ==
    /\ ApiInit
    /\ page = NoPage

\* history: where the underlying request stood when a signal was aborted
StageOf(phase) ==
    IF phase \in {"auth", "fetch"} THEN phase ELSE "after"

(* ----------------------------- actions -------------------------------- *)

\* queries, sessionAtCall and stale are history: the getSession calls made
\* for this call, the session when it was made, and whether the promise it
\* took from the registry had already settled
NewCall(method, path, body, hasSignal, timeoutMs, run, queries, stale) ==
    [method |-> method, path |-> path, body |-> body,
     signal |-> IF hasSignal THEN "idle" ELSE "none",
     timeoutMs |-> timeoutMs,
     firedIn |-> "never", run |-> run, settled |-> FALSE, outcome |-> Pending,
     queries |-> queries, sessionAtCall |-> session, stale |-> stale]

NewRun ==
    [phase |-> "auth", err |-> "none", timer |-> "unset", listener |-> FALSE,
     timeoutMs |-> 0, byUser |-> FALSE, token |-> NoToken, headers |-> <<>>,
     status |-> 0, body |-> "", textCalls |-> 0, fetches |-> 0,
     outcome |-> Pending]

\* apiRequest, lines 54-66, the early return: reuse the in-flight promise
CallJoin(limit, method, path, body, hasSignal, timeoutMs) ==
    LET key == Key(method, path, body)
        id == Len(calls) + 1 IN
    /\ Len(calls) < limit
    /\ UserMayRun
    /\ Dedupes(method, key)
    /\ calls' = Append(calls,
                NewCall(method, path, body, hasSignal, timeoutMs, inflight[key], 0,
                        runs[inflight[key]].outcome.kind # "pending"))
    /\ regLog' = regLog \cup {<<id, "has">>, <<id, "get">>}
    /\ UNCHANGED <<runs, inflight, session, changes, page>>

\* apiRequest, lines 54-133 up to the first suspension: create `run`
\* (suspended in authHeaders), register it for a GET, await it
CallStart(limit, method, path, body, hasSignal, timeoutMs) ==
    LET key == Key(method, path, body)
        id == Len(calls) + 1 IN
    /\ Len(calls) < limit
    /\ UserMayRun
    /\ ~Dedupes(method, key)
    /\ calls' = Append(calls,
                NewCall(method, path, body, hasSignal, timeoutMs, id, 1, FALSE))
    /\ runs' = (id :> NewRun) @@ runs
    /\ inflight' = IF RegistersRun(method) THEN (key :> id) @@ inflight ELSE inflight
    /\ regLog' = regLog
                 \cup (IF ReadsRegistry(method) THEN {<<id, "has">>} ELSE {})
                 \cup (IF RegistersRun(method) THEN {<<id, "set">>} ELSE {})
    /\ UNCHANGED <<session, changes, page>>

\* the session provider's state changes: sign-in, sign-out, refresh
SessionChange(tok) ==
    /\ changes < MaxSessionChanges
    /\ tok # session
    /\ session' = tok
    /\ changes' = changes + 1
    /\ UNCHANGED <<calls, runs, inflight, regLog, page>>

\* lines 69-96: getSession resolved; headers built, timer armed, listener
\* attached, fetch issued
AuthResolve(r) ==
    /\ runs[r].phase = "auth"
    /\ runs' = [runs EXCEPT ![r] =
                  [@ EXCEPT !.phase = "fetch",
                            !.token = session,
                            !.headers = AuthHeaders(AccessToken(session),
                                                    calls[r].body),
                            !.timer = ArmedTimer,
                            !.timeoutMs = TimeoutMs(calls[r].timeoutMs),
                            !.listener = (calls[r].signal # "none"),
                            !.fetches = @ + 1]]
    /\ UNCHANGED <<calls, inflight, regLog, session, changes, page>>

\* faulty variant of AbortTarget: the signal of every caller of a request
\* aborts it
AbortTarget_AnyCaller(c) ==
    IF runs[calls[c].run].phase = "fetch" THEN calls[c].run ELSE 0

\* lines 82-83: the run whose fetch the signal of call c aborts, 0 for
\* none: the listener is on the signal of the call that created the run
AbortTarget(c) ==
    IF c \in RunIds /\ runs[c].listener /\ runs[c].phase = "fetch" THEN c ELSE 0

\* the page aborts the AbortController whose signal it passed in call c;
\* line 82 runs when the listener of line 83 is attached
SignalAbort(c) ==
    /\ UserMayRun
    /\ calls[c].signal = "idle"
    /\ calls' = [calls EXCEPT ![c] =
                    [@ EXCEPT !.signal = "fired",
                              !.firedIn = StageOf(runs[calls[c].run].phase)]]
    /\ runs' = IF AbortTarget(c) # 0
               THEN [runs EXCEPT ![AbortTarget(c)] =
                       [@ EXCEPT !.phase = "rejected",
                                 !.err = "AbortError",
                                 !.byUser = TRUE]]
               ELSE runs
    /\ UNCHANGED <<inflight, regLog, session, changes, page>>

\* line 80: the timeout callback aborts the controller
TimerFire(r) ==
    /\ TaskMayRun
    /\ runs[r].timer = "armed"
    /\ runs[r].phase = "fetch"
    /\ runs' = [runs EXCEPT ![r] = [@ EXCEPT !.phase = "rejected",
                                             !.err = "AbortError",
                                             !.timer = "fired"]]
    /\ UNCHANGED <<calls, inflight, regLog, session, changes, page>>

\* fetch rejects for a reason other than an abort (no connectivity)
NetFail(r) ==
    /\ TaskMayRun
    /\ runs[r].phase = "fetch"
    /\ runs' = [runs EXCEPT ![r] = [@ EXCEPT !.phase = "rejected",
                                             !.err = "TypeError"]]
    /\ UNCHANGED <<calls, inflight, regLog, session, changes, page>>

\* faulty variant of AfterCatch: a failed fetch is tried again
AfterCatch_Retry == "auth"

\* lines 97-101: the catch throws, which settles `run`
AfterCatch == "settled"

\* lines 97-105: the catch and finally of the fetch
FetchCatch(r) ==
    /\ runs[r].phase = "rejected"
    /\ runs' = [runs EXCEPT ![r] =
                  [FetchFinally(@) EXCEPT
                     !.phase = AfterCatch,
                     !.outcome = Err(CatchMessage(runs[r].err, calls[r].method,
                                                  Url(calls[r].path)))]]
    /\ UNCHANGED <<calls, inflight, regLog, session, changes, page>>

\* lines 90-96, 102-118: fetch resolved with a response; finally, then the
\* status checks up to the next suspension
Respond(r, status) ==
    /\ TaskMayRun
    /\ runs[r].phase = "fetch"
    /\ runs' = [runs EXCEPT ![r] =
                  [FetchFinally(@) EXCEPT
                     !.status = status,
                     !.phase = IF ~ResOk(status) THEN "errbody"
                               ELSE IF NoContent(status) THEN "settled"
                               ELSE "okbody",
                     !.textCalls = IF ResOk(status) /\ NoContent(status)
                                   THEN @ ELSE @ + 1,
                     !.outcome = IF ResOk(status) /\ NoContent(status)
                                 THEN Ok(<<"null">>) ELSE @]]
    /\ UNCHANGED <<calls, inflight, regLog, session, changes, page>>

\* lines 108-115 and 120-127: res.text() settled
BodyRead(r, body) ==
    /\ TaskMayRun
    /\ runs[r].phase \in {"errbody", "okbody"}
    /\ runs' = [runs EXCEPT ![r] =
                  [@ EXCEPT !.phase = "settled",
                            !.body = body,
                            !.outcome =
                               IF runs[r].phase = "errbody"
                               THEN Err(ApiMessage(runs[r].status, Url(calls[r].path),
                                                   TextOrEmpty(body)))
                               ELSE Decode(body)]]
    /\ UNCHANGED <<calls, inflight, regLog, session, changes, page>>

\* lines 132-136: the starter's await of `run` resumes; finally deletes the
\* key; the starter's promise settles
StarterFinally(r) ==
    LET c == calls[r]
        key == Key(c.method, c.path, c.body) IN
    /\ runs[r].phase = "settled"
    /\ runs' = [runs EXCEPT ![r].phase = "done"]
    /\ calls' = [calls EXCEPT ![r] = [@ EXCEPT !.settled = TRUE,
                                               !.outcome = runs[r].outcome]]
    /\ inflight' = IF DeletesKey(c.method)
                   THEN [k \in DOMAIN inflight \ {key} |-> inflight[k]]
                   ELSE inflight
    /\ regLog' = regLog \cup (IF DeletesKey(c.method) THEN {<<r, "delete">>} ELSE {})
    /\ UNCHANGED <<session, changes, page>>

\* line 65: the promise returned to a joined caller follows `run`
JoinerSettle(c) ==
    /\ JoinJobPending(c)
    /\ calls' = [calls EXCEPT ![c] = [@ EXCEPT !.settled = TRUE,
                                               !.outcome = runs[calls[c].run].outcome]]
    /\ UNCHANGED <<runs, inflight, regLog, session, changes, page>>

\* the steps of the runtime that need no input
Engine ==
    \/ \E r \in RunIds : AuthResolve(r)
    \/ \E c \in CallIds : SignalAbort(c)
    \/ \E r \in RunIds : TimerFire(r)
    \/ \E r \in RunIds : NetFail(r)
    \/ \E r \in RunIds : FetchCatch(r)
    \/ \E r \in RunIds : StarterFinally(r)
    \/ \E c \in CallIds : JoinerSettle(c)

Next ==
    \/ \E q \in CoreRequests : CallJoin(MaxCalls, q[1], q[2], q[3], q[4], q[5])
    \/ \E q \in CoreRequests : CallStart(MaxCalls, q[1], q[2], q[3], q[4], q[5])
    \/ \E r \in RunIds, st \in Statuses : Respond(r, st)
    \/ \E r \in RunIds, b \in RespBodies : BodyRead(r, b)
    \/ Engine

Spec == Init /\ [][Next]_vars

\* the runtime steps that happen once they can: a resolved getSession
\* resumes, an armed timer expires, queued promise reactions run
Runtime ==
    \/ \E r \in RunIds : AuthResolve(r)
    \/ \E r \in RunIds : TimerFire(r)
    \/ \E r \in RunIds : FetchCatch(r)
    \/ \E r \in RunIds : StarterFinally(r)
    \/ \E c \in CallIds : JoinerSettle(c)

LiveNext ==
    \/ \E q \in Requests : CallJoin(MaxLiveCalls, q[1], q[2], q[3], q[4], q[5])
    \/ \E q \in Requests : CallStart(MaxLiveCalls, q[1], q[2], q[3], q[4], q[5])
    \/ \E r \in RunIds, st \in Statuses : Respond(r, st)
    \/ \E r \in RunIds, b \in RespBodies : BodyRead(r, b)
    \/ Engine

LiveSpec == Init /\ [][LiveNext]_vars /\ WF_vars(Runtime)

\* the wire: one request at a time, with every status and body text,
\* every verb and a changing session
WireNext ==
    \/ \E q \in WireRequests :
          AllSettled /\ CallStart(MaxWireCalls, q[1], q[2], q[3], q[4], q[5])
    \/ \E tok \in Tokens : SessionChange(tok)
    \/ \E r \in RunIds, st \in WireStatuses : Respond(r, st)
    \/ \E r \in RunIds, b \in WireRespBodies : BodyRead(r, b)
    \/ \E r \in RunIds : AuthResolve(r)
    \/ \E r \in RunIds : TimerFire(r)
    \/ \E r \in RunIds : NetFail(r)
    \/ \E r \in RunIds : FetchCatch(r)
    \/ \E r \in RunIds : StarterFinally(r)

WireSpec == Init /\ [][WireNext]_vars

\* the session: concurrent calls while the user signs in or out, on a
\* network that always answers
AuthNext ==
    \/ \E q \in AuthRequests : CallJoin(MaxAuthCalls, q[1], q[2], q[3], q[4], q[5])
    \/ \E q \in AuthRequests : CallStart(MaxAuthCalls, q[1], q[2], q[3], q[4], q[5])
    \/ \E tok \in Tokens : SessionChange(tok)
    \/ \E r \in RunIds, st \in AuthStatuses : Respond(r, st)
    \/ \E r \in RunIds, b \in AuthRespBodies : BodyRead(r, b)
    \/ \E r \in RunIds : AuthResolve(r)
    \/ \E r \in RunIds : StarterFinally(r)
    \/ \E c \in CallIds : JoinerSettle(c)

AuthSpec == Init /\ [][AuthNext]_vars

\* the options: concurrent calls for one URL that differ in their signal
\* and their timeoutMs
OptsNext ==
    \/ \E q \in OptsRequests : CallJoin(MaxOptsCalls, q[1], q[2], q[3], q[4], q[5])
    \/ \E q \in OptsRequests : CallStart(MaxOptsCalls, q[1], q[2], q[3], q[4], q[5])
    \/ \E r \in RunIds, st \in Statuses : Respond(r, st)
    \/ \E r \in RunIds, b \in RespBodies : BodyRead(r, b)
    \/ \E r \in RunIds : AuthResolve(r)
    \/ \E c \in CallIds : SignalAbort(c)
    \/ \E r \in RunIds : TimerFire(r)
    \/ \E r \in RunIds : FetchCatch(r)
    \/ \E r \in RunIds : StarterFinally(r)
    \/ \E c \in CallIds : JoinerSettle(c)

OptsSpec == Init /\ [][OptsNext]_vars

(* ======================= properties of apiRequest ====================== *)

IsGet(c) == calls[c].method = "GET"
KeyOf(c) == Key(calls[c].method, calls[c].path, calls[c].body)
CallersOf(r) == {c \in CallIds : calls[c].run = r}
Started(c) == c \in RunIds
\* a network call that has been issued and has neither failed nor delivered
\* its whole response
Outstanding(r) == runs[r].phase \in {"fetch", "errbody", "okbody"}

\* the step is a call of apiRequest, and the call is number Len(calls')
IsCallStep == Len(calls') = Len(calls) + 1
NewId == Len(calls) + 1

(* ---- C1 ---- *)

\* a GET called while the call that started the request for its fingerprint
\* has not settled starts no request of its own: it joins that one
C1_JoinsFirst ==
    (IsCallStep /\ calls'[NewId].method = "GET") =>
        \A c \in CallIds :
            (Started(c) /\ IsGet(c) /\ ~calls[c].settled
               /\ calls[c].path = calls'[NewId].path)
            => (calls'[NewId].run = c /\ runs' = runs)

\* one fetch per shared request, and one outcome for all of its callers
C1_OneOutcome ==
    \A r \in RunIds :
        /\ runs[r].fetches <= 1
        /\ \A c \in CallersOf(r) :
              calls[c].settled =>
                 /\ runs[r].fetches = 1
                 /\ calls[c].outcome.kind # "pending"
                 /\ \A d \in CallersOf(r) :
                       calls[d].settled => calls[d].outcome = calls[c].outcome

\* C1: GET calls with the same method and URL made while the first of them
\* has not resolved share one network call, and all of them settle with the
\* identical outcome
C1_DedupSharedOutcome == [][C1_JoinsFirst /\ C1_OneOutcome']_vars

C1_Witness ==
    \E r \in RunIds :
        /\ IsGet(r)
        /\ Cardinality(CallersOf(r)) >= 3
        /\ \A c \in CallersOf(r) : calls[c].settled /\ calls[c].outcome.kind = "ok"
        /\ runs[r].fetches = 1

(* ---- C2 ---- *)

\* C2: a call with a method other than GET always issues its own network
\* call, also next to an identical call that is still outstanding, and
\* performs no operation on the in-flight registry
C2_NonGetNeverDeduplicated ==
    \A c \in CallIds :
        ~IsGet(c) =>
            /\ Started(c)
            /\ calls[c].run = c
            /\ (runs[c].phase # "auth" => runs[c].fetches = 1)
            /\ \A op \in {"has", "get", "set", "delete"} : <<c, op>> \notin regLog
            /\ \A k \in DOMAIN inflight : inflight[k] # c

C2_Witness ==
    \E c, d \in CallIds :
        /\ c # d
        /\ ~IsGet(c) /\ ~IsGet(d)
        /\ KeyOf(c) = KeyOf(d)
        /\ runs[c].phase = "fetch" /\ runs[d].phase = "fetch"
        /\ runs[c].fetches = 1 /\ runs[d].fetches = 1

(* ---- C3 ---- *)

\* C3: in every reachable state at most one network call is outstanding
\* for each GET fingerprint
C3_OneOutstandingPerFingerprint ==
    \A r, q \in RunIds :
        (IsGet(r) /\ IsGet(q) /\ KeyOf(r) = KeyOf(q)
           /\ Outstanding(r) /\ Outstanding(q))
        => r = q

\* a request re-issued after the first one failed, joined by a third caller
C3_Witness ==
    \E r, q \in RunIds :
        /\ r # q /\ IsGet(r) /\ IsGet(q) /\ KeyOf(r) = KeyOf(q)
        /\ runs[r].phase = "done" /\ runs[r].outcome.kind = "error"
        /\ Outstanding(q)
        /\ Cardinality(CallersOf(q)) = 2

(* ---- C4 ---- *)

\* the registry holds no entry of a request whose starter has finalized
C4_RemovedWhenFinalized ==
    /\ \A k \in DOMAIN inflight : ~calls[inflight[k]].settled
    /\ AllSettled => DOMAIN inflight = {}

\* a GET called when no starter of its fingerprint is unsettled issues a
\* fresh request
C4_FreshAfterSettle ==
    (IsCallStep /\ calls'[NewId].method = "GET"
       /\ \A c \in CallIds :
             (Started(c) /\ IsGet(c) /\ calls[c].path = calls'[NewId].path)
             => calls[c].settled)
    => (calls'[NewId].run = NewId /\ NewId \in DOMAIN runs')

\* C4: when the result of a GET is finalized its fingerprint leaves the
\* registry, however many callers joined; once every GET has settled the
\* registry is empty, and the next GET of that fingerprint starts a fresh
\* network call
C4_RegistryCleanup == [][C4_FreshAfterSettle /\ C4_RemovedWhenFinalized']_vars

C4_Witness ==
    \E r, q \in RunIds :
        /\ r < q /\ IsGet(r) /\ IsGet(q) /\ KeyOf(r) = KeyOf(q)
        /\ Cardinality(CallersOf(r)) = 2
        /\ runs[r].phase = "done"
        /\ runs[q].fetches = 1
        /\ KeyOf(q) \in DOMAIN inflight /\ inflight[KeyOf(q)] = q

(* ---- C5 ---- *)

LiveIds == 1..MaxLiveCalls
UrlOf(c) == Url(calls[c].path)
TimeoutFailure(c) == Err(<<"API timeout/abort ->", calls[c].method, UrlOf(c)>>)
NetworkFailure(c) == Err(<<"Network error ->", calls[c].method, UrlOf(c)>>)

\* the timer of the request that call c awaits has expired
TimedOut(c) == c \in CallIds /\ runs[calls[c].run].timer = "fired"

SettledWithTimeout(c) ==
    /\ c \in CallIds
    /\ calls[c].settled
    /\ calls[c].outcome = TimeoutFailure(c)
    /\ IsGet(c) => KeyOf(c) \notin DOMAIN inflight

Called(c) == c \in CallIds
Settled(c) == c \in CallIds /\ calls[c].settled

ResponseArrived(c) ==
    c \in CallIds /\ runs[calls[c].run].phase \in {"errbody", "okbody"}

\* C5: when the timeout expires before a response, the caller receives the
\* timeout/abort failure and, for a GET, the registry no longer holds the
\* fingerprint; a call to which no response arrives does not stay pending
C5_TimeoutSettles ==
    \A c \in LiveIds :
        /\ TimedOut(c) ~> SettledWithTimeout(c)
        /\ Called(c) ~> (Settled(c) \/ ResponseArrived(c))

C5_Witness ==
    \E r \in RunIds, c \in CallIds :
        /\ c # r /\ calls[c].run = r
        /\ runs[r].err = "AbortError" /\ ~runs[r].byUser
        /\ SettledWithTimeout(c) /\ SettledWithTimeout(r)

(* ---- C6 ---- *)

\* C6 as claimed: a signal aborted at any time between the call and the
\* response aborts the underlying request, and the caller that passed it
\* gets the timeout/abort failure
C6_SignalAlwaysAborts ==
    \A c \in CallIds :
        (Started(c) /\ calls[c].firedIn \in {"auth", "fetch"}) =>
            /\ runs[c].phase # "auth" => runs[c].err = "AbortError"
            /\ calls[c].settled => calls[c].outcome = TimeoutFailure(c)

(* ---- C7 ---- *)

\* the request that GET call c awaits was aborted, by timer or by signal
AwaitsAborted(c) ==
    c \in CallIds /\ IsGet(c) /\ runs[calls[c].run].err = "AbortError"

AbortDelivered(c) ==
    /\ c \in CallIds
    /\ calls[c].settled
    /\ calls[c].outcome = TimeoutFailure(c)
    /\ runs[calls[c].run].fetches = 1
    /\ (calls[c].run # c => c \notin RunIds)

\* C7: when the network call of a shared GET is aborted, every caller
\* awaiting it receives the timeout/abort failure, and none of them issues
\* another network call
C7_AbortReachesAllCallers ==
    \A c \in LiveIds : AwaitsAborted(c) ~> AbortDelivered(c)

C7_Witness ==
    \E r \in RunIds, c \in CallIds :
        /\ c # r /\ calls[c].run = r /\ IsGet(r)
        /\ runs[r].err = "AbortError" /\ runs[r].byUser
        /\ calls[c].settled /\ calls[r].settled
        /\ calls[c].outcome = TimeoutFailure(r)
        /\ calls[r].outcome = TimeoutFailure(r)
        /\ Cardinality(RunIds) = 1

(* ---- C8 ---- *)

\* C8: a request that has settled, on whatever path, has neither an armed
\* timer nor a listener attached to the caller's signal
C8_CleanupOnEveryExit ==
    \A r \in RunIds :
        runs[r].phase \in {"errbody", "okbody", "settled", "done"} =>
            /\ runs[r].timer # "armed"
            /\ ~runs[r].listener

C8_Witness ==
    \E r, q \in RunIds :
        /\ calls[r].signal # "none" /\ calls[q].signal # "none"
        /\ runs[r].phase = "done" /\ runs[q].phase = "done"
        /\ runs[r].outcome.kind = "ok"
        /\ runs[q].err = "AbortError"
        /\ runs[r].fetches = 1 /\ runs[q].fetches = 1

(* ---- C9 ---- *)

\* C9: a network call that ends without a response is reported by cause:
\* an abort as the timeout/abort failure, any other failure as the network
\* failure, each naming method and URL, and never one as the other
C9_ClassifiedByCause ==
    \A r \in RunIds :
        (runs[r].phase \in {"settled", "done"} /\ runs[r].err # "none") =>
            /\ runs[r].err = "AbortError" => runs[r].outcome = TimeoutFailure(r)
            /\ runs[r].err # "AbortError" => runs[r].outcome = NetworkFailure(r)
            /\ TimeoutFailure(r) # NetworkFailure(r)

C9_Witness ==
    \E r, q, p \in RunIds :
        /\ runs[r].err = "AbortError" /\ runs[r].byUser
        /\ runs[q].err = "AbortError" /\ ~runs[q].byUser
        /\ runs[p].err = "TypeError"
        /\ runs[r].phase = "done" /\ runs[q].phase = "done" /\ runs[p].phase = "done"

(* ---- C10 ---- *)

\* the message is the text of its parts in a row: it carries every part,
\* and the empty text
Carries(message, text) ==
    text = "" \/ \E i \in DOMAIN message : message[i] = text

GotFailureStatus(r) ==
    /\ runs[r].phase \in {"settled", "done"}
    /\ runs[r].status # 0
    /\ (runs[r].status < 200 \/ runs[r].status > 299)

BodyText(r) == IF runs[r].body = Unreadable THEN "" ELSE runs[r].body

\* C10 as claimed: every non-2xx response fails with a failure carrying
\* the status code, the URL and the response body text
C10_EveryFailureCarriesBody ==
    \A r \in RunIds :
        GotFailureStatus(r) =>
            /\ runs[r].outcome.kind = "error"
            /\ Carries(runs[r].outcome.message, ToString(runs[r].status))
            /\ Carries(runs[r].outcome.message, UrlOf(r))
            /\ Carries(runs[r].outcome.message, BodyText(r))

\* C10: every non-2xx response fails, never succeeds; the failure carries
\* the status code and the URL, and the response body text (empty when it
\* cannot be read) unless the status is 401, where it carries the text
\* Unauthorized instead of the body
C10_FailureCarriesStatusUrlText ==
    \A r \in RunIds :
        GotFailureStatus(r) =>
            /\ runs[r].outcome.kind = "error"
            /\ Carries(runs[r].outcome.message, ToString(runs[r].status))
            /\ Carries(runs[r].outcome.message, UrlOf(r))
            /\ runs[r].status # 401 =>
                  /\ Carries(runs[r].outcome.message, BodyText(r))
                  /\ Len(runs[r].outcome.message) = 4
                  /\ runs[r].outcome.message[4] = BodyText(r)
            /\ runs[r].status = 401 =>
                  Carries(runs[r].outcome.message, "Unauthorized")

C10_Witness ==
    \E r \in RunIds :
        /\ GotFailureStatus(r) /\ runs[r].status = 500 /\ runs[r].body = "boom"
        /\ calls[r].settled
        /\ calls[r].outcome.kind = "error"
        /\ calls[r].outcome.message[4] = "boom"

(* ---- C11 ---- *)

\* C11 as claimed: the callers' test (the message contains " 401 " or,
\* in any letter case, "unauthorized") tells the failure of a 401 response
\* from the failure of every other non-2xx response, whatever its URL and
\* body text
C11_UnauthorizedDistinguishable ==
    \A r \in RunIds :
        GotFailureStatus(r) =>
            (LooksUnauthorized(runs[r].outcome.message) <=> runs[r].status = 401)

(* ---- C12 ---- *)

\* C12: for every response with status 204 the result is null, and the
\* body is neither read nor decoded: res.text() is never called and no
\* body text reaches the run
C12_NoContentIsNull ==
    \A r \in RunIds :
        runs[r].status = 204 =>
            /\ runs[r].phase \in {"settled", "done"}
            /\ runs[r].outcome = Ok(<<"null">>)
            /\ runs[r].textCalls = 0
            /\ runs[r].body = ""
            /\ calls[r].settled => calls[r].outcome = Ok(<<"null">>)

C12_Witness ==
    \E r \in RunIds :
        /\ runs[r].status = 204
        /\ runs[r].textCalls = 0
        /\ calls[r].settled
        /\ calls[r].outcome = Ok(<<"null">>)

(* ---- C13 ---- *)

\* a 2xx response other than 204 whose body text has been read
GotSuccessBody(r) ==
    /\ runs[r].phase \in {"settled", "done"}
    /\ ResOk(runs[r].status)
    /\ runs[r].status # 204
    /\ runs[r].body # Unreadable

\* C13: for every 2xx response other than 204 the call succeeds: with an
\* empty body text the result is null, with a JSON text it is the parsed
\* value, with any other text it is that text unchanged; a failure to
\* decode is never surfaced as an error
C13_DecodeNeverFails ==
    \A r \in RunIds :
        GotSuccessBody(r) =>
            /\ runs[r].outcome.kind = "ok"
            /\ runs[r].body = "" => runs[r].outcome.value = <<"null">>
            /\ (runs[r].body # "" /\ IsJson(runs[r].body)) =>
                  runs[r].outcome.value = JSONParse(runs[r].body)
            /\ (runs[r].body # "" /\ ~IsJson(runs[r].body)) =>
                  runs[r].outcome.value = <<"text", runs[r].body>>
            /\ calls[r].settled => calls[r].outcome = runs[r].outcome

C13_Witness ==
    \E r \in RunIds :
        /\ GotSuccessBody(r)
        /\ runs[r].body = "boom"
        /\ calls[r].settled
        /\ calls[r].outcome = Ok(<<"text", "boom">>)

(* ---- C14 ---- *)

\* the request of run r has been issued
Issued(r) == runs[r].phase # "auth"

HasBearer(r) == "Authorization" \in DOMAIN runs[r].headers

\* C14: the request carries an Authorization bearer header exactly when
\* the session provider returned a token for the call; with no token the
\* request is still issued, once, and the call fails only for what the
\* network or the server answers
C14_BearerIffToken ==
    \A r \in RunIds :
        Issued(r) =>
            /\ HasBearer(r) <=> runs[r].token # NoToken
            /\ HasBearer(r) => runs[r].headers["Authorization"][1] = "Bearer"
            /\ runs[r].fetches = 1
            /\ (runs[r].token = NoToken /\ runs[r].outcome.kind = "error") =>
                  (runs[r].err # "none" \/ ~ResOk(runs[r].status))

C14_Witness ==
    \E r, q \in RunIds :
        /\ runs[r].token = NoToken /\ ~HasBearer(r)
        /\ calls[r].settled /\ calls[r].outcome.kind = "ok"
        /\ runs[q].token # NoToken /\ HasBearer(q)
        /\ Issued(q)

(* ---- C15 ---- *)

\* the fetch calls made for call c: those of the run it started
FetchesFor(c) == IF Started(c) THEN runs[c].fetches ELSE 0

\* a call issues at most one network call, and a failed request has
\* issued one, is over, and hands its failure to its caller unchanged
C15_AtMostOneFetch ==
    /\ \A c \in CallIds : FetchesFor(c) <= 1
    /\ \A r \in RunIds :
          runs[r].outcome.kind = "error" =>
              /\ runs[r].fetches = 1
              /\ runs[r].phase \in {"settled", "done"}
              /\ calls[r].settled => calls[r].outcome = runs[r].outcome

\* after a failure the request issues no network call and keeps its failure
C15_FailureIsFinal ==
    \A r \in RunIds :
        runs[r].outcome.kind = "error" =>
            /\ r \in DOMAIN runs'
            /\ runs'[r].fetches = runs[r].fetches
            /\ runs'[r].outcome = runs[r].outcome

\* C15: nothing is retried or recovered locally: a call issues at most
\* one network call whatever its outcome, and a failure is raised to the
\* caller as the request produced it, with no network call after it
C15_NoRetry == [][C15_AtMostOneFetch' /\ C15_FailureIsFinal]_vars

C15_Witness ==
    \E r \in RunIds :
        /\ runs[r].err = "TypeError"
        /\ runs[r].fetches = 1
        /\ calls[r].settled
        /\ calls[r].outcome.kind = "error"

(* ---- C16 ---- *)

\* the token sent with the request of run r, none without the header
SentToken(r) ==
    IF HasBearer(r) THEN runs[r].headers["Authorization"][2] ELSE NoToken

\* C16 as claimed: every apiRequest call queries the session provider
\* exactly once and uses the token that query returned
C16_EveryCallQueriesOnce ==
    \A c \in CallIds :
        /\ calls[c].queries = 1
        /\ (Started(c) /\ Issued(c)) => SentToken(c) = runs[c].token

\* C16: every call that starts a request queries the session provider
\* exactly once, and the request uses the token that query returned, not
\* one kept from an earlier call; a GET call that joins an in-flight
\* request makes no query: it shares the request of the call it joined
C16_StarterQueriesOnce ==
    \A c \in CallIds :
        /\ Started(c) => calls[c].queries = 1
        /\ (Started(c) /\ Issued(c)) => SentToken(c) = runs[c].token
        /\ ~Started(c) =>
              /\ calls[c].queries = 0
              /\ calls[c].run \in RunIds
              /\ calls[calls[c].run].queries = 1

C16_Witness ==
    \E r, q \in RunIds :
        /\ r < q
        /\ Issued(r) /\ Issued(q)
        /\ calls[r].queries = 1 /\ calls[q].queries = 1
        /\ SentToken(r) = NoToken
        /\ SentToken(q) = "tokA" /\ runs[q].token = "tokA"

(* ---- C17 ---- *)

\* C17 as claimed: every registry entry refers to a GET request, and no
\* caller is handed through the registry the outcome of a request that
\* had already completed when that caller invoked apiRequest
C17_RegistryHoldsOnlyPending ==
    /\ \A k \in DOMAIN inflight :
          /\ inflight[k] \in RunIds
          /\ IsGet(inflight[k])
          /\ KeyOf(inflight[k]) = k
    /\ \A c \in CallIds : ~calls[c].stale

(* ---- C18 ---- *)

Joined(c) == c \in CallIds /\ calls[c].run # c

\* the signal of a joined caller fires: the shared request and the
\* caller's own promise stay as they are
C18_JoinerSignalInert ==
    \A c \in CallIds :
        (Joined(c) /\ calls[c].signal = "idle" /\ calls'[c].signal = "fired") =>
            /\ runs' = runs
            /\ calls'[c].settled = calls[c].settled
            /\ calls'[c].outcome = calls[c].outcome

\* the timer of an issued request runs for the starter's timeoutMs, its
\* listener sits on the starter's signal, a caller's abort that ended it
\* was the starter's, and a joined caller settles with its outcome
C18_StarterOptionsApply ==
    /\ \A r \in RunIds :
          /\ Issued(r) => runs[r].timeoutMs = TimeoutMs(calls[r].timeoutMs)
          /\ runs[r].listener => calls[r].signal # "none"
          /\ runs[r].byUser => calls[r].signal = "fired"
    /\ \A c \in CallIds :
          (Joined(c) /\ calls[c].settled) =>
              /\ runs[calls[c].run].phase = "done"
              /\ calls[c].outcome = runs[calls[c].run].outcome

\* C18: the options of a GET caller that joins an in-flight request are
\* ignored: its signal firing neither aborts the shared request nor
\* settles that caller early, and its timeoutMs does not change the
\* shared timeout; only the starter's signal and timeout apply
C18_JoinerOptionsIgnored ==
    [][C18_JoinerSignalInert /\ C18_StarterOptionsApply']_vars

C18_Witness ==
    \E c \in CallIds :
        /\ Joined(c)
        /\ calls[c].firedIn = "fetch"
        /\ calls[c].timeoutMs = {5000}
        /\ calls[calls[c].run].timeoutMs = NoTimeout
        /\ runs[calls[c].run].timeoutMs = DefaultTimeoutMs
        /\ calls[c].settled
        /\ calls[c].outcome.kind = "ok"

(* ---- C19 ---- *)

\* a GET called while the call that started a GET of its URL has not
\* settled joins it and starts no request, whatever token the session
\* holds at that moment
C19_JoinsAcrossTokens ==
    (IsCallStep /\ calls'[NewId].method = "GET") =>
        \A r \in RunIds :
            (IsGet(r) /\ Url(calls[r].path) = Url(calls'[NewId].path)
               /\ ~calls[r].settled)
            => /\ calls'[NewId].run = r
               /\ calls'[NewId].sessionAtCall = session
               /\ runs' = runs
               /\ inflight' = inflight

\* the outcome a joined caller receives is that of the request of the
\* call it joined, sent with the token queried for that call; the joined
\* caller's own session plays no part
C19_JoinerGetsStartersFetch ==
    \A c \in CallIds :
        (Joined(c) /\ calls[c].settled) =>
            /\ calls[c].outcome = runs[calls[c].run].outcome
            /\ calls[c].outcome = calls[calls[c].run].outcome
            /\ calls[c].queries = 0
            /\ runs[calls[c].run].fetches = 1
            /\ SentToken(calls[c].run) = runs[calls[c].run].token

\* C19: the fingerprint does not depend on the auth token: a GET that
\* joins an in-flight GET of the same URL receives that request's outcome
\* even when the session token changed between the two calls, so its
\* result was fetched with the token of the earlier call
C19_FingerprintIgnoresToken ==
    [][C19_JoinsAcrossTokens /\ C19_JoinerGetsStartersFetch']_vars

\* the starter's request went out without a token; the session then got
\* a token; the later caller joined and received the starter's result
C19_Witness ==
    \E c \in CallIds :
        /\ Joined(c)
        /\ calls[c].sessionAtCall = "tokA"
        /\ calls[calls[c].run].sessionAtCall = NoToken
        /\ SentToken(calls[c].run) = NoToken
        /\ calls[c].settled
        /\ calls[c].outcome.kind = "ok"

(* ---- C20 ---- *)

\* the calls that delete from the registry in this step
Deleting == {c \in CallIds : <<c, "delete">> \in regLog' \ regLog}

\* a call that deletes had inserted the entry it deletes, and that entry
\* is still its own; nothing but its key leaves the registry, and no entry
\* leaves without its inserter's delete
C20_DeletesOwnEntry ==
    /\ \A c \in Deleting :
          /\ Started(c)
          /\ <<c, "set">> \in regLog
          /\ KeyOf(c) \in DOMAIN inflight
          /\ inflight[KeyOf(c)] = c
          /\ DOMAIN inflight' = DOMAIN inflight \ {KeyOf(c)}
    /\ \A k \in DOMAIN inflight :
          \/ k \in DOMAIN inflight' /\ inflight'[k] = inflight[k]
          \/ inflight[k] \in Deleting

\* a joined caller performs no delete
C20_JoinerNeverDeletes ==
    \A c \in CallIds : Joined(c) => <<c, "delete">> \notin regLog

\* C20: the registry entry removed by a GET call's cleanup is always the
\* entry that call inserted: a completing request never deletes the entry
\* of a later request with the same fingerprint, and a joined caller
\* removes no entry
C20_CleanupRemovesOwnEntry ==
    [][C20_DeletesOwnEntry /\ C20_JoinerNeverDeletes']_vars

C20_Witness ==
    \E r, q \in RunIds, c \in CallIds :
        /\ r < q /\ KeyOf(r) = KeyOf(q)
        /\ <<r, "delete">> \in regLog
        /\ Joined(c) /\ calls[c].run = r /\ calls[c].settled
        /\ <<q, "set">> \in regLog /\ <<q, "delete">> \notin regLog
        /\ inflight[KeyOf(q)] = q

(* ---- C21 ---- *)

\* a 2xx response other than 204 whose body could not be read
GotUnreadableSuccess(r) ==
    /\ runs[r].phase \in {"settled", "done"}
    /\ ResOk(runs[r].status)
    /\ runs[r].status # 204
    /\ runs[r].textCalls = 1
    /\ runs[r].body = Unreadable

\* C21: for a 2xx response other than 204 whose body cannot be read the
\* call succeeds with null: a failed read of the body after a successful
\* status never reaches the caller
C21_UnreadableBodyIsNull ==
    \A r \in RunIds :
        GotUnreadableSuccess(r) =>
            /\ runs[r].outcome = Ok(<<"null">>)
            /\ calls[r].settled => calls[r].outcome = Ok(<<"null">>)

C21_Witness ==
    \E r \in RunIds :
        /\ GotUnreadableSuccess(r)
        /\ calls[r].settled
        /\ calls[r].outcome.kind = "ok"
        /\ calls[r].outcome.value = <<"null">>

(* ================ the decision detail page: saveEdit =================== *)

\* number of times fetchAll delivers fresh data in one behaviour of EditSpec
MaxReloads == 1

\* JavaScript null, and a message state that holds no message
NullValue == [null |-> TRUE]
NoError == <<>>

\* String.prototype.trim on the modelled texts: " " is the blank one
Trim(text) == IF text = " " THEN "" ELSE text

\* what the server holds when the page is loaded, and what a later
\* fetchAll finds
Decision0 == [title |-> "T0", status |-> "proposed"]
Details0 == [context |-> "c0", final_decision |-> "f0", rationale |-> "r0"]
ReloadedDecisions == {[title |-> "T9", status |-> "accepted"]}
ReloadedDetails ==
    {[context |-> "c9", final_decision |-> "f9", rationale |-> "r9"], NullValue}

\* what the user types into the edit form
FormTitles == {"T1", " "}
FormStatuses == {"accepted"}
FormContexts == {"c1"}

\* the two generations of saveEdit: a PUT of the details (page.tsx:377-423),
\* and a POST of the decision next to a POST of the details (1375-1431)
SaveRequests(version) ==
    IF version = 1 THEN {"details"} ELSE {"decision", "details"}
SaveMethod(version) == IF version = 1 THEN "PUT" ELSE "POST"
SavePath(which) ==
    IF which = "details" THEN "/decisions/d1/details" ELSE "/decisions/d1"

\* the failures apiRequest raises for a request
Failures(method, path) ==
    {Err(ApiMessage(401, Url(path), "")),
     Err(ApiMessage(500, Url(path), "boom")),
     Err(TimeoutMessage(method, Url(path))),
     Err(NetworkMessage(method, Url(path)))}

\* page.tsx:414-419: the text shown for a failure
SignInToEdit == <<"You're not signed in. Sign in to edit this decision.">>
ErrorShown(message, signInText) ==
    IF LooksUnauthorized(message) THEN signInText ELSE message

NoSave == [active |-> FALSE]

EditPage(version) ==
    [view |-> "detail.edit", version |-> version,
     decision |-> Decision0, details |-> Details0,
     editOpen |-> FALSE, editSaving |-> FALSE, editError |-> NoError,
     editTitle |-> "", editStatus |-> "proposed", editContext |-> "",
     editFinal |-> "", editRationale |-> "",
     save |-> NoSave,
     \* history: the values at the last call of saveEdit, how that call
     \* ended, the response it got, and the fetchAll deliveries so far
     invoked |-> [decision |-> NullValue, details |-> NullValue],
     ended |-> "never", response |-> NullValue, reloads |-> 0]

EditInit ==
    /\ ApiInit
    /\ \E version \in {1, 2} : page = EditPage(version)

\* page.tsx:367-375
openEdit ==
    /\ ~page.editOpen
    /\ page.decision # NullValue /\ page.details # NullValue
    /\ page' = [page EXCEPT
                  !.editError = NoError,
                  !.editTitle = page.decision.title,
                  !.editStatus = page.decision.status,
                  !.editContext = page.details.context,
                  !.editFinal = page.details.final_decision,
                  !.editRationale = page.details.rationale,
                  !.editOpen = TRUE]
    /\ UNCHANGED apiVars

\* the inputs of the edit modal
TypeInEdit(title, status, context) ==
    /\ page.editOpen
    /\ ~page.editSaving
    /\ page' = [page EXCEPT !.editTitle = title, !.editStatus = status,
                            !.editContext = context]
    /\ UNCHANGED apiVars

\* page.tsx:953-958 and 1045-1049: backdrop and Cancel, inert while saving
cancelEdit ==
    /\ page.editOpen
    /\ ~page.editSaving
    /\ page' = [page EXCEPT !.editOpen = FALSE]
    /\ UNCHANGED apiVars

\* page.tsx:380-393
NextDetails ==
    [page.details EXCEPT !.context = page.editContext,
                         !.final_decision = page.editFinal,
                         !.rationale = page.editRationale]
NextDecision ==
    [page.decision EXCEPT
        !.title = IF Trim(page.editTitle) # "" THEN Trim(page.editTitle) ELSE @,
        !.status = page.editStatus]

\* page.tsx:377-407 up to the await; the Save button is disabled while
\* saving and for a blank title (1053-1056)
saveEdit ==
    /\ page.editOpen
    /\ ~page.editSaving
    /\ Trim(page.editTitle) # ""
    /\ page.decision # NullValue /\ page.details # NullValue
    /\ page' = [page EXCEPT
                  !.editSaving = TRUE,
                  !.editError = NoError,
                  !.decision = NextDecision,
                  !.details = NextDetails,
                  !.save = [active |-> TRUE,
                            prevDecision |-> page.decision,
                            prevDetails |-> page.details,
                            waiting |-> SaveRequests(page.version),
                            updatedDecision |-> NullValue,
                            updatedDetails |-> NullValue],
                  !.invoked = [decision |-> page.decision,
                               details |-> page.details],
                  !.ended = "pending"]
    /\ UNCHANGED apiVars

\* faulty variant of Rollback: only the details are put back
Rollback_DetailsOnly(p) == [p EXCEPT !.details = p.save.prevDetails]

\* page.tsx:411-412
Rollback(p) ==
    [p EXCEPT !.decision = p.save.prevDecision, !.details = p.save.prevDetails]

\* page.tsx:410-422: catch and finally of saveEdit
SaveFailed(p, message) ==
    [Rollback(p) EXCEPT
        !.editError = ErrorShown(message, SignInToEdit),
        !.editSaving = FALSE,
        !.save = NoSave,
        !.ended = "failed"]

\* page.tsx:408-409 (1414-1416) and the finally
SaveSucceeded(p, updatedDecision, updatedDetails) ==
    [p EXCEPT
        !.decision = IF p.version = 1 THEN @ ELSE updatedDecision,
        !.details = updatedDetails,
        !.editOpen = FALSE,
        !.editSaving = FALSE,
        !.save = NoSave,
        !.ended = "succeeded",
        !.response = updatedDetails]

\* a request of the save settles: the first failure rejects the await
\* (Promise.all), the last success resolves it
SaveSettle(which, outcome) ==
    /\ page.save.active
    /\ which \in page.save.waiting
    /\ LET got == [page EXCEPT
                     !.save.waiting = @ \ {which},
                     !.save.updatedDecision =
                         IF which = "decision" THEN outcome.value ELSE @,
                     !.save.updatedDetails =
                         IF which = "details" THEN outcome.value ELSE @] IN
       page' = IF outcome.kind = "error" THEN SaveFailed(page, outcome.message)
               ELSE IF got.save.waiting # {} THEN got
               ELSE SaveSucceeded(got, got.save.updatedDecision,
                                  got.save.updatedDetails)
    /\ UNCHANGED apiVars

\* what the server answers to a request of the save: the record it stored,
\* or an empty body
SaveOutcomes(which) ==
    (IF which = "details" THEN {Ok(page.details), Ok(NullValue)}
     ELSE {Ok(page.decision)})
    \cup Failures(SaveMethod(page.version), SavePath(which))

\* page.tsx:296-297: a fetchAll started by an auth state change delivers
\* (its other assignments touch no state of the edit modal)
Reload(decision, details) ==
    /\ page.reloads < MaxReloads
    /\ page' = [page EXCEPT !.decision = decision, !.details = details,
                            !.reloads = @ + 1]
    /\ UNCHANGED apiVars

EditNext ==
    \/ openEdit
    \/ \E t \in FormTitles, st \in FormStatuses, c \in FormContexts :
          TypeInEdit(t, st, c)
    \/ cancelEdit
    \/ saveEdit
    \/ \E which \in {"decision", "details"} :
          \E o \in SaveOutcomes(which) : SaveSettle(which, o)
    \/ \E d \in ReloadedDecisions, det \in ReloadedDetails : Reload(d, det)

EditSpec == EditInit /\ [][EditNext]_vars

(* ---- C22 ---- *)

\* the step in which the pending saveEdit ends
SaveEnds == page.save.active /\ ~page'.save.active

\* C22: saveEdit is an optimistic update with rollback: when the save
\* fails, decision and details equal the values they had when saveEdit was
\* called, the edit dialog is open with an error and editSaving is false;
\* when it succeeds, details equals the server's response and the dialog
\* is closed
C22_OptimisticWithRollback ==
    [][SaveEnds =>
         /\ ~page'.editSaving
         /\ page'.ended = "failed" =>
               /\ page'.decision = page.invoked.decision
               /\ page'.details = page.invoked.details
               /\ page'.editOpen
               /\ page'.editError # NoError
         /\ page'.ended = "succeeded" =>
               /\ page'.details = page'.response
               /\ ~page'.editOpen
               /\ page'.editError = NoError
         /\ page'.ended \in {"failed", "succeeded"}]_vars

C22_Witness ==
    /\ page.view = "detail.edit"
    /\ page.ended = "failed"
    /\ page.reloads = 1
    /\ page.invoked.decision = Decision0
    /\ page.decision = Decision0 /\ page.details = Details0
    /\ page.editOpen /\ page.editError # NoError /\ ~page.editSaving

(* ======== the decision detail page: options and the confirm dialog ===== *)

\* number of requests the user starts (choose, add, confirmed delete) and
\* number of options added in one behaviour of OptionsSpec
MaxOps == 3
MaxAdds == 2

\* the options the page has loaded; ids are opaque strings from the server,
\* o404 is one that happens to hold the digits 404
NoId == ""
Option(id, chosen) == [id |-> id, is_chosen |-> chosen]
Options0 == <<Option("o1", TRUE), Option("o404", FALSE)>>
\* the option the server creates for the n-th Add option
CreatedOption(n) ==
    Option(IF n = 1 THEN "o3" ELSE IF n = 2 THEN "o4" ELSE "o5", FALSE)

Ids(options) == {options[i].id : i \in DOMAIN options}

\* `/options/${optionId}` and `/options/${optionId}/choose`
OptionPath(id) ==
    CASE id = "o1" -> "/options/o1"
      [] id = "o404" -> "/options/o404"
      [] id = "o3" -> "/options/o3"
      [] id = "o4" -> "/options/o4"
      [] id = "o5" -> "/options/o5"
ChoosePath(id) ==
    CASE id = "o1" -> "/options/o1/choose"
      [] id = "o404" -> "/options/o404/choose"
      [] id = "o3" -> "/options/o3/choose"
      [] id = "o4" -> "/options/o4/choose"
      [] id = "o5" -> "/options/o5/choose"

\* what apiRequest makes of the server's answers to a request: the
\* status answered (0 when no response came) and the result or error
Answers(method, path) ==
    {[status |-> 204, result |-> Ok(NullValue)],
     [status |-> 404, result |-> Err(ApiMessage(404, Url(path), "gone"))],
     [status |-> 500, result |-> Err(ApiMessage(500, Url(path), "boom"))],
     [status |-> 0, result |-> Err(NetworkMessage(method, Url(path)))]}

\* msg.includes("404") on the modelled words: the status word, and the
\* URLs of the option whose id holds 404
Words404 ==
    {"404", Url(OptionPath("o404")), Url(ChoosePath("o404"))}
Includes404(message) == \E i \in DOMAIN message : message[i] \in Words404

SignInToChoose == <<"You're not signed in. Sign in to choose an option.">>
SignInToAdd == <<"You're not signed in. Sign in to add options.">>
SignInToContinue == <<"You're not signed in. Sign in to continue.">>

NoAction == [kind |-> "null"]

OptionsPage ==
    [view |-> "detail.options",
     options |-> Options0,
     chooseSavingId |-> NoId, chooseError |-> NoError,
     addingOptionSaving |-> FALSE, addOptionError |-> NoError,
     confirmOpen |-> FALSE, confirmBusy |-> FALSE, confirmError |-> NoError,
     confirmAction |-> NoAction,
     \* the calls suspended in their await: chooseOption calls, and
     \* executions of the confirm action
     chooses |-> {}, confirmRuns |-> {},
     \* history: calls counted, the handler that ran last, the options the
     \* server confirmed as added and as deleted, the last answer to a DELETE
     chooseCount |-> 0, addCount |-> 0, runCount |-> 0, last |-> "mount",
     confirmedAdds |-> {}, confirmedDeletes |-> {},
     lastDelete |-> [status |-> 0, id |-> NoId, prev |-> <<>>]]

\* the requests the user has started
OpsStarted == page.chooseCount + page.addCount + page.runCount

OptionsInit ==
    /\ ApiInit
    /\ page = OptionsPage

\* page.tsx:431-436
MarkChosen(options, id) ==
    [i \in DOMAIN options |-> [options[i] EXCEPT !.is_chosen = (options[i].id = id)]]

\* page.tsx:464, 493
Without(options, id) == SelectSeq(options, LAMBDA o : o.id # id)

\* page.tsx:425-439 up to the await; the Choose button of an option is
\* disabled while that option is being saved (747), and the confirm dialog
\* covers the page while it is open
chooseOption(id) ==
    /\ OpsStarted < MaxOps
    /\ ~page.confirmOpen
    /\ id \in Ids(page.options)
    /\ page.chooseSavingId # id
    /\ page' = [page EXCEPT
                  !.chooseError = NoError,
                  !.chooseSavingId = id,
                  !.options = MarkChosen(@, id),
                  !.chooses = @ \cup {[n |-> page.chooseCount + 1, id |-> id,
                                       prev |-> page.options]},
                  !.chooseCount = @ + 1,
                  !.last = "chooseOption"]
    /\ UNCHANGED apiVars

\* page.tsx:438-451: the await of chooseOption resumes
ChooseSettle(op, answer) ==
    /\ op \in page.chooses
    /\ page' = [page EXCEPT
                  !.options = IF answer.result.kind = "error" THEN op.prev ELSE @,
                  !.chooseError =
                      IF answer.result.kind = "error"
                      THEN ErrorShown(answer.result.message, SignInToChoose)
                      ELSE @,
                  !.chooseSavingId = NoId,
                  !.chooses = @ \ {op},
                  !.last = IF answer.result.kind = "error"
                           THEN "chooseFailed" ELSE "chooseDone"]
    /\ UNCHANGED apiVars

\* page.tsx:653-661: the Add option button, up to the await
addOption ==
    /\ OpsStarted < MaxOps
    /\ page.addCount < MaxAdds
    /\ ~page.confirmOpen
    /\ ~page.addingOptionSaving
    /\ page' = [page EXCEPT !.addingOptionSaving = TRUE,
                            !.addOptionError = NoError,
                            !.addCount = @ + 1,
                            !.last = "addOption"]
    /\ UNCHANGED apiVars

\* page.tsx:662-694: the await of the Add option handler resumes
AddSettle(answer) ==
    /\ page.addingOptionSaving
    /\ page' = [page EXCEPT
                  !.options = IF answer.result.kind = "ok"
                              THEN <<CreatedOption(page.addCount)>> \o @ ELSE @,
                  !.addOptionError =
                      IF answer.result.kind = "error"
                      THEN ErrorShown(answer.result.message, SignInToAdd)
                      ELSE @,
                  !.addingOptionSaving = FALSE,
                  !.confirmedAdds = IF answer.result.kind = "ok"
                                    THEN @ \cup {CreatedOption(page.addCount).id}
                                    ELSE @,
                  !.last = IF answer.result.kind = "ok"
                           THEN "addDone" ELSE "addFailed"]
    /\ UNCHANGED apiVars

\* page.tsx:454-480 with openConfirm (254-267): the action closes over the
\* options of the render in which Delete was clicked
requestDeleteOption(id) ==
    /\ ~page.confirmOpen
    /\ id \in Ids(page.options)
    /\ page' = [page EXCEPT
                  !.confirmError = NoError,
                  !.confirmAction = [kind |-> "deleteOption", id |-> id,
                                     options |-> page.options],
                  !.confirmOpen = TRUE,
                  !.last = "requestDeleteOption"]
    /\ UNCHANGED apiVars

\* page.tsx:269-274; backdrop and Cancel are inert while busy (148-169)
closeConfirm ==
    /\ page.confirmOpen
    /\ ~page.confirmBusy
    /\ page' = [page EXCEPT !.confirmOpen = FALSE,
                            !.confirmAction = NoAction,
                            !.confirmError = NoError,
                            !.last = "closeConfirm"]
    /\ UNCHANGED apiVars

\* faulty variant of BusyWhileRunning: confirmBusy is not set
BusyWhileRunning_NotSet == FALSE

\* page.tsx:349
BusyWhileRunning == TRUE

\* page.tsx:347-351 and 462-467 up to the await: runConfirm starts the
\* action, which removes the option and issues the DELETE; the Confirm
\* button is disabled while busy (173-174)
runConfirm ==
    /\ OpsStarted < MaxOps
    /\ page.confirmOpen
    /\ page.confirmAction # NoAction
    /\ ~page.confirmBusy
    /\ page' = [page EXCEPT
                  !.confirmBusy = BusyWhileRunning,
                  !.confirmError = NoError,
                  !.options = Without(@, page.confirmAction.id),
                  !.confirmRuns = @ \cup {[n |-> page.runCount + 1,
                                           id |-> page.confirmAction.id,
                                           prev |-> page.confirmAction.options]},
                  !.runCount = @ + 1,
                  !.last = "runConfirm"]
    /\ UNCHANGED apiVars

\* page.tsx:468-475: whether the action swallows the failure
TreatedAsGone(message) == Includes404(message)

\* page.tsx:466-477 and 351-364: the await of the DELETE resumes; the
\* action returns or throws, and runConfirm goes on to its end
ConfirmSettle(run, answer) ==
    /\ run \in page.confirmRuns
    /\ LET failed == answer.result.kind = "error"
           thrown == failed /\ ~TreatedAsGone(answer.result.message) IN
       page' = [page EXCEPT
                  !.options = IF thrown THEN run.prev ELSE @,
                  !.confirmOpen = IF thrown THEN @ ELSE FALSE,
                  !.confirmAction = IF thrown THEN @ ELSE NoAction,
                  !.confirmError =
                      IF thrown
                      THEN ErrorShown(answer.result.message, SignInToContinue)
                      ELSE @,
                  !.confirmBusy = FALSE,
                  !.confirmRuns = @ \ {run},
                  !.confirmedDeletes =
                      IF ~failed \/ answer.status = 404
                      THEN @ \cup {run.id} ELSE @,
                  !.lastDelete = [status |-> answer.status, id |-> run.id,
                                  prev |-> run.prev],
                  !.last = IF thrown THEN "deleteFailed"
                           ELSE IF failed THEN "deleteSwallowed"
                           ELSE "deleteDone"]
    /\ UNCHANGED apiVars

OptionIds == {"o1", "o404", "o3", "o4", "o5"}

OptionsNext ==
    \/ \E id \in OptionIds : chooseOption(id)
    \/ \E op \in page.chooses :
          \E a \in Answers("PUT", ChoosePath(op.id)) : ChooseSettle(op, a)
    \/ addOption
    \/ \E a \in Answers("POST", "/decisions/d1/options") : AddSettle(a)
    \/ \E id \in OptionIds : requestDeleteOption(id)
    \/ closeConfirm
    \/ runConfirm
    \/ \E run \in page.confirmRuns :
          \E a \in Answers("DELETE", OptionPath(run.id)) : ConfirmSettle(run, a)

OptionsSpec == OptionsInit /\ [][OptionsNext]_vars

(* ---- C23 ---- *)

\* the confirm action for a delete has just ended on a failed DELETE
DeleteJustFailed == page.last \in {"deleteFailed", "deleteSwallowed"}

\* C23 as claimed: a failed DELETE of an option is treated as success (the
\* option stays removed, no error, the dialog closes) exactly when the
\* server answered 404; after every other failure the options list is
\* restored and the error is shown in the confirm dialog
C23_SwallowedExactlyOn404 ==
    DeleteJustFailed =>
        IF page.lastDelete.status = 404
        THEN /\ page.lastDelete.id \notin Ids(page.options)
             /\ page.confirmError = NoError
             /\ ~page.confirmOpen
        ELSE /\ page.options = page.lastDelete.prev
             /\ page.confirmError # NoError
             /\ page.confirmOpen

(* ---- C24 ---- *)

\* the confirm action is never executed concurrently with itself, and the
\* dialog is busy exactly while an execution is suspended
C24_NeverConcurrent ==
    /\ Cardinality(page.confirmRuns) <= 1
    /\ page.confirmBusy <=> page.confirmRuns # {}

\* the step in which the running confirm action ends
RunEnds == page.confirmRuns # {} /\ page'.confirmRuns = {}

\* while busy no handler but the end of the run touches the dialog
C24_InertWhileBusy ==
    (page.confirmBusy /\ ~RunEnds) =>
        /\ page'.confirmRuns = page.confirmRuns
        /\ page'.runCount = page.runCount
        /\ page'.confirmOpen = page.confirmOpen
        /\ page'.confirmAction = page.confirmAction
        /\ page'.confirmError = page.confirmError
        /\ page'.confirmBusy = page.confirmBusy

\* how a run ends
C24_RunEnds ==
    RunEnds =>
        /\ ~page'.confirmBusy
        /\ page'.last \in {"deleteDone", "deleteSwallowed", "deleteFailed"}
        /\ page'.last \in {"deleteDone", "deleteSwallowed"} =>
              /\ ~page'.confirmOpen
              /\ page'.confirmAction = NoAction
        /\ page'.last = "deleteFailed" =>
              /\ page'.confirmOpen
              /\ page'.confirmAction = page.confirmAction
              /\ page'.confirmAction # NoAction
              /\ page'.confirmError # NoError

\* C24: while a confirm action is running the dialog is inert: runConfirm
\* starts no second execution and closeConfirm changes nothing, so the
\* action never runs concurrently with itself; when the run ends
\* confirmBusy is false, and the dialog is closed with the action cleared
\* on success, or open with the action kept and an error set on failure
C24_ConfirmInertWhileBusy ==
    [][C24_InertWhileBusy /\ C24_RunEnds /\ C24_NeverConcurrent']_vars

\* a delete failed, was confirmed again, and failed again
C24_Witness ==
    /\ page.view = "detail.options"
    /\ page.runCount = 2
    /\ page.last = "deleteFailed"
    /\ page.confirmOpen /\ ~page.confirmBusy
    /\ page.confirmAction # NoAction
    /\ page.confirmError # NoError

(* ---- C28 ---- *)

\* the rollback of a failed chooseOption or delete has just run
JustRolledBack == page.last \in {"chooseFailed", "deleteFailed"}

\* the options whose removal is still only optimistic
BeingDeleted == {run.id : run \in page.confirmRuns}

\* C28 as claimed: the rollback of a failed choose or delete loses no
\* effect of an operation that completed meanwhile: an option added
\* successfully is still in the list, and an option whose deletion
\* succeeded is not back in it
C28_RollbackKeepsOthers ==
    JustRolledBack =>
        /\ \A id \in page.confirmedAdds \ page.confirmedDeletes :
              id \in Ids(page.options) \cup BeingDeleted
        /\ \A id \in page.confirmedDeletes : id \notin Ids(page.options)

(* ============================== AuthGate =============================== *)

\* number of route changes and of auth state change events in one
\* behaviour of GateSpec
MaxNavigations == 2
MaxAuthEvents == 2

Pathnames == {"/workspaces", "/auth/sign-in", "/auth/sign-up"}

\* pathname.startsWith("/auth") on the modelled pathnames
StartsWithAuth(pathname) == pathname \in {"/auth/sign-in", "/auth/sign-up"}

\* AuthGate.tsx:17-35 up to the await, and 37-46: what one run of the
\* effect leaves; `effect` numbers the runs, a run is alive while it is
\* the last one, and `checks` holds the runs suspended in getSession
RunEffect(gate, pathname) ==
    [gate EXCEPT
        !.pathname = pathname,
        !.effect = @ + 1,
        !.state = IF StartsWithAuth(pathname) THEN "authed" ELSE @,
        !.checks = IF StartsWithAuth(pathname) THEN @
                   ELSE @ \cup {gate.effect + 1},
        !.subscribed = TRUE]

GatePage(pathname) ==
    RunEffect([view |-> "gate", pathname |-> pathname, state |-> "checking",
               effect |-> 0, checks |-> {}, subscribed |-> FALSE,
               \* history: the pathnames on which the guest state was
               \* entered and a redirect to /auth/sign-in was asked for,
               \* and the events counted
               guestOn |-> {}, redirectedOn |-> {},
               navigations |-> 0, events |-> 0],
              pathname)

GateInit ==
    /\ ApiInit
    /\ \E pathname \in Pathnames : page = GatePage(pathname)

\* AuthGate.tsx:27-29 and 40-42
ToGuest(gate) ==
    [gate EXCEPT !.state = "guest",
                 !.guestOn = @ \cup {gate.pathname},
                 !.redirectedOn = @ \cup {gate.pathname}]

\* the route changes: the effect's cleanup (48-51) runs, then the effect
\* runs again for the new pathname
Navigate(pathname) ==
    /\ page.navigations < MaxNavigations
    /\ pathname # page.pathname
    /\ page' = [RunEffect(page, pathname) EXCEPT !.navigations = @ + 1]
    /\ UNCHANGED apiVars

\* AuthGate.tsx:23-34: getSession resolves for the effect run e
CheckResolve(e, hasSession) ==
    /\ e \in page.checks
    /\ LET gate == [page EXCEPT !.checks = @ \ {e}] IN
       page' = IF e # page.effect THEN gate
               ELSE IF ~hasSession THEN ToGuest(gate)
               ELSE [gate EXCEPT !.state = "authed"]
    /\ UNCHANGED apiVars

\* AuthGate.tsx:37-46: an auth state change event reaches the listener,
\* which tests the session only
AuthEvent(hasSession) ==
    /\ page.events < MaxAuthEvents
    /\ page.subscribed
    /\ page' = [(IF ~hasSession
                  THEN ToGuest(page)
                  ELSE [page EXCEPT !.state = "authed"])
                 EXCEPT !.events = @ + 1]
    /\ UNCHANGED apiVars

GateNext ==
    \/ \E pathname \in Pathnames : Navigate(pathname)
    \/ \E e \in page.checks, hasSession \in BOOLEAN : CheckResolve(e, hasSession)
    \/ \E hasSession \in BOOLEAN : AuthEvent(hasSession)

GateSpec == GateInit /\ [][GateNext]_vars

(* ---- C25 ---- *)

\* C25 as claimed: AuthGate never guards /auth routes: while the pathname
\* starts with /auth no event, the session check or an auth state change,
\* makes it enter the guest state or redirect to /auth/sign-in
C25_NeverGuardsAuthRoutes ==
    /\ \A pathname \in page.guestOn : ~StartsWithAuth(pathname)
    /\ \A pathname \in page.redirectedOn : ~StartsWithAuth(pathname)

(* ================ the decision detail page: loading ==================== *)

\* number of fetchAll calls in one behaviour of LoadSpec
MaxFetchAlls == 2

\* page.tsx:289-292: the four GETs of fetchAll
FourGets == {"decision", "details", "options", "revisions"}

\* page.tsx:324
SessionWaitMs == 2000
SessionNotReady == <<"Session not ready yet. Try refreshing or signing in again.">>

LoadPage ==
    [view |-> "detail.load",
     alive |-> TRUE, loading |-> TRUE, error |-> NoError, loaded |-> FALSE,
     \* start(): suspended in getSession, or past it
     start |-> "getSession",
     timer |-> "unset", timerMs |-> 0, subscribed |-> FALSE,
     \* the fetchAll calls suspended in Promise.all, each with the GETs
     \* that have not resolved yet
     fetches |-> {},
     \* history: fetchAll calls counted
     fetchCount |-> 0]

LoadInit ==
    /\ ApiInit
    /\ page = LoadPage

\* page.tsx:282-293 up to the await: fetchAll starts its four GETs
fetchAll(p) ==
    [p EXCEPT !.loading = TRUE,
              !.error = NoError,
              !.fetches = @ \cup {[n |-> p.fetchCount + 1, waiting |-> FourGets]},
              !.fetchCount = @ + 1]

\* faulty variant of SessionWaitTimer: no timer guards the wait
SessionWaitTimer_Missing == "unset"

\* page.tsx:320-324: setTimeout arms the timer
SessionWaitTimer == "armed"

\* page.tsx:308-337: the getSession of start() resolves
StartResolve(hasSession) ==
    /\ page.start = "getSession"
    /\ page' = IF ~page.alive THEN [page EXCEPT !.start = "done"]
               ELSE IF hasSession
               THEN [fetchAll(page) EXCEPT !.start = "done"]
               ELSE [page EXCEPT !.start = "done",
                                 !.timer = SessionWaitTimer,
                                 !.timerMs = SessionWaitMs,
                                 !.subscribed = TRUE]
    /\ UNCHANGED apiVars

\* page.tsx:320-324: the timer expires
SessionTimerFire ==
    /\ page.timer = "armed"
    /\ page' = IF ~page.alive THEN [page EXCEPT !.timer = "fired"]
               ELSE [page EXCEPT !.timer = "fired",
                                 !.error = SessionNotReady,
                                 !.loading = FALSE]
    /\ UNCHANGED apiVars

\* page.tsx:328-334: an auth state change event reaches the listener; its
\* clearTimeout leaves an expired timer expired
SessionEvent(hasSession) ==
    /\ page.subscribed
    /\ page.alive
    /\ page.fetchCount < MaxFetchAlls
    /\ page' = IF hasSession
               THEN [fetchAll(page) EXCEPT !.timer = IF @ = "armed" THEN "cleared" ELSE @]
               ELSE page
    /\ UNCHANGED apiVars

\* page.tsx:287-305: a GET of fetchAll f settles; the first failure
\* rejects Promise.all, the last success resolves it
GetSettle(f, get, failure) ==
    /\ f \in page.fetches
    /\ get \in f.waiting
    /\ LET left == f.waiting \ {get}
           over == failure # NoError \/ left = {}
           rest == page.fetches \ {f} IN
       page' = IF ~over
               THEN [page EXCEPT !.fetches = rest \cup {[f EXCEPT !.waiting = left]}]
               ELSE IF ~page.alive THEN [page EXCEPT !.fetches = rest]
               ELSE IF failure # NoError
               THEN [page EXCEPT !.fetches = rest,
                                 !.error = failure,
                                 !.loading = FALSE]
               ELSE [page EXCEPT !.fetches = rest,
                                 !.loaded = TRUE,
                                 !.loading = FALSE]
    /\ UNCHANGED apiVars

\* page.tsx:341-344: the effect's cleanup
Unmount ==
    /\ page.alive
    /\ page' = [page EXCEPT !.alive = FALSE, !.subscribed = FALSE]
    /\ UNCHANGED apiVars

\* the failure a GET may end with: none, or the timeout of apiRequest
GetFailures == {NoError, TimeoutMessage("GET", Url("/decisions/d1"))}

LoadNext ==
    \/ \E hasSession \in BOOLEAN : StartResolve(hasSession)
    \/ SessionTimerFire
    \/ \E hasSession \in BOOLEAN : SessionEvent(hasSession)
    \/ \E f \in page.fetches, get \in FourGets, failure \in GetFailures :
          GetSettle(f, get, failure)
    \/ Unmount

\* getSession resolves, an armed timer expires, and every GET settles
\* (apiRequest ends each request by its own timeout at the latest)
LoadSpec ==
    /\ LoadInit
    /\ [][LoadNext]_vars
    /\ WF_vars(\E hasSession \in BOOLEAN : StartResolve(hasSession))
    /\ WF_vars(SessionTimerFire)
    /\ WF_vars(\E f \in page.fetches, get \in FourGets, failure \in GetFailures :
                  GetSettle(f, get, failure))

(* ---- C26 ---- *)

\* what start() does once getSession has resolved on a mounted page: with
\* a session the four GETs start at once; without one a timer of 2000 ms
\* is armed and the page listens for auth state changes
C26_StartStep ==
    (page.start = "getSession" /\ page'.start = "done" /\ page.alive) =>
        \/ /\ page'.fetches = {[n |-> 1, waiting |-> FourGets]}
           /\ page'.timer = "unset"
        \/ /\ page'.fetches = {}
           /\ page'.timer = "armed" /\ page'.timerMs = SessionWaitMs
           /\ page'.subscribed

\* the wait for a session ends in one of two ways: a session arrives, the
\* timer is cancelled and the four GETs start; or the timer expires, the
\* error is set and loading becomes false
C26_WaitEnds ==
    (page.timer = "armed" /\ page'.timer # "armed" /\ page.alive) =>
        \/ /\ page'.timer = "cleared"
           /\ \E f \in page'.fetches \ page.fetches : f.waiting = FourGets
           /\ page'.loading
        \/ /\ page'.timer = "fired"
           /\ page'.error = SessionNotReady
           /\ ~page'.loading

\* an unfinished load has something that will end it
C26_Pending ==
    (page.alive /\ page.loading) =>
        \/ page.start = "getSession"
        \/ page.timer = "armed"
        \/ page.fetches # {}

StillLoading == page.alive /\ page.loading
LoadOver == ~page.alive \/ ~page.loading

\* C26: the detail page does not hang in the loading state: with a session
\* the four GETs start at once; without one, either an auth state change
\* delivers a session within the 2000 ms (timer cancelled, loading starts)
\* or the error is set and loading becomes false; and loading always
\* becomes false in the end while the page stays mounted
C26_NeverHangsLoading ==
    /\ [][C26_StartStep /\ C26_WaitEnds /\ C26_Pending']_vars
    /\ (StillLoading ~> LoadOver)

C26_Witness ==
    /\ page.view = "detail.load"
    /\ page.alive
    /\ page.timer = "fired"
    /\ page.loaded
    /\ ~page.loading
    /\ page.fetchCount = 2

(* ================= the new decision page: onSave ======================= *)

\* number of onSave runs in one behaviour of NewSpec, and the longest
\* list of options of the form
MaxSaves == 2
MaxOptions == 2

\* the texts typed into the form: " " is the blank one
NewTitles == {"T1", " "}
FormOptions ==
    UNION {[1..n -> [option_name : {"A", "B", " "}, is_chosen : {FALSE}]] :
             n \in 0..MaxOptions}

NoRequest == <<>>

NewPage(title, options) ==
    [view |-> "new",
     title |-> title, context |-> "c1", options |-> options,
     saving |-> FALSE, error |-> NoError,
     \* the onSave in progress: the request it awaits, the options its
     \* loop has not visited yet, the id of the created decision
     pending |-> NoRequest, rest |-> <<>>, createdId |-> NoId,
     \* where router.push went
     pushed |-> <<>>,
     \* history of the latest onSave: the form it started from, the
     \* requests it sent, how many of them succeeded, whether one failed
     plan |-> <<>>, sent |-> <<>>, succeeded |-> 0, failed |-> FALSE,
     saves |-> 0]

NewInit ==
    /\ ApiInit
    /\ \E title \in NewTitles : page = NewPage(title, <<>>)

\* page.tsx:463-466 (workspaceId is set on this route)
canSave(title) == Trim(title) # ""

\* page.tsx:468-483 and the title input: the form is edited
TypeInNew(title, options) ==
    /\ page.view = "new"
    /\ page.pushed = <<>>
    /\ page' = [page EXCEPT !.title = title, !.options = options]
    /\ UNCHANGED apiVars

\* page.tsx:493-498, 501-505, 512-517: the three requests
DecisionPost(title, context) ==
    <<"POST", "/workspaces/w1/decisions",
      [title |-> Trim(title), summary |-> Trim(context)]>>
DetailsPut(id, context) ==
    <<"PUT", "/decisions/d1/details",
      [context |-> Trim(context), final_decision |-> "", rationale |-> ""]>>
OptionPost(id, o) ==
    <<"POST", "/decisions/d1/options",
      [option_name |-> Trim(o.option_name), is_chosen |-> o.is_chosen]>>

\* faulty variant of SkipBlank: no option is skipped
SkipBlank_None(options) == options

\* page.tsx:508-510: the loop passes over options with a blank name
RECURSIVE SkipBlank(_)
SkipBlank(options) ==
    IF options = <<>> THEN <<>>
    ELSE IF Trim(Head(options).option_name) = "" THEN SkipBlank(Tail(options))
    ELSE options

\* page.tsx:485-493: Save is pressed (the button is disabled while saving
\* and while canSave is false)
onSave ==
    /\ page.view = "new"
    /\ page.pushed = <<>>
    /\ ~page.saving
    /\ canSave(page.title)
    /\ page.saves < MaxSaves
    /\ LET request == DecisionPost(page.title, page.context) IN
       page' = [page EXCEPT !.saving = TRUE,
                            !.error = NoError,
                            !.pending = request,
                            !.rest = page.options,
                            !.createdId = NoId,
                            !.plan = page.options,
                            !.sent = <<request>>,
                            !.succeeded = 0,
                            !.failed = FALSE,
                            !.saves = @ + 1]
    /\ UNCHANGED apiVars

\* page.tsx:522-526: catch and finally
SaveNewFailed(p, message) ==
    [p EXCEPT !.pending = NoRequest,
              !.error = message,
              !.saving = FALSE,
              !.failed = TRUE]

\* page.tsx:508-526: the loop goes on to the next named option, or the
\* page navigates to the created decision
SaveNewGoOn(p, options) ==
    LET left == SkipBlank(options) IN
    IF left = <<>>
    THEN [p EXCEPT !.pending = NoRequest,
                   !.rest = <<>>,
                   !.pushed = <<"/workspaces/w1/decisions/d1">>,
                   !.saving = FALSE]
    ELSE LET request == OptionPost(p.createdId, Head(left)) IN
         [p EXCEPT !.pending = request,
                   !.rest = Tail(left),
                   !.sent = Append(@, request)]

\* page.tsx:493-521: the awaited request settles
NewSettle(outcome) ==
    /\ page.view = "new"
    /\ page.pending # NoRequest
    /\ LET done == [page EXCEPT !.succeeded = @ + 1] IN
       page' =
         IF outcome.kind = "error" THEN SaveNewFailed(page, outcome.message)
         ELSE IF page.createdId = NoId
         THEN \* the decision POST: created.id is read
              IF outcome.value = NullValue
              THEN SaveNewFailed(done,
                     <<"Cannot read properties of null (reading 'id')">>)
              ELSE LET request == DetailsPut(outcome.value.id, page.context) IN
                   [done EXCEPT !.createdId = outcome.value.id,
                                !.pending = request,
                                !.sent = Append(@, request)]
         ELSE SaveNewGoOn(done, page.rest)
    /\ UNCHANGED apiVars

\* what apiRequest may give for the awaited request
NewOutcomes ==
    (IF page.pending = NoRequest THEN {}
     ELSE IF page.createdId = NoId
          THEN {Ok([id |-> "d1"]), Ok(NullValue)}
          ELSE {Ok(NullValue)}
          \cup Failures(page.pending[1], page.pending[2]))

NewNext ==
    \/ \E title \in NewTitles, options \in FormOptions : TypeInNew(title, options)
    \/ onSave
    \/ \E outcome \in NewOutcomes : NewSettle(outcome)

NewSpec == NewInit /\ [][NewNext]_vars

(* ---- C27 ---- *)

\* the names, trimmed and in list order, of the options that have one
RECURSIVE NamedOptions(_)
NamedOptions(options) ==
    IF options = <<>> THEN <<>>
    ELSE (IF Head(options).option_name = " " THEN <<>>
          ELSE <<Head(options).option_name>>)
         \o NamedOptions(Tail(options))

\* the option names of the option POSTs among the requests sent
SentOptionNames ==
    [i \in 1..(Len(page.sent) - 2) |-> page.sent[i + 2][3].option_name]

IsPrefix(a, b) == Len(a) <= Len(b) /\ a = SubSeq(b, 1, Len(a))

\* the requests of one onSave go out in order, each after the success of
\* the one before
C27_InOrder ==
    /\ Len(page.sent) >= 1 => page.sent[1][2] = "/workspaces/w1/decisions"
    /\ Len(page.sent) >= 2 =>
          /\ page.sent[2][1] = "PUT"
          /\ page.sent[2][2] = "/decisions/d1/details"
    /\ \A i \in 3..Len(page.sent) :
          /\ page.sent[i][1] = "POST"
          /\ page.sent[i][2] = "/decisions/d1/options"
    /\ IsPrefix(SentOptionNames, NamedOptions(page.plan))
    /\ Len(page.sent) <= page.succeeded + 1
    /\ page.pending # NoRequest =>
          /\ page.pending = page.sent[Len(page.sent)]
          /\ Len(page.sent) = page.succeeded + 1
          /\ page.saving

\* navigation follows the success of every request
C27_NavigatesAfterAll ==
    page.pushed # <<>> =>
        /\ Len(page.sent) = 2 + Len(NamedOptions(page.plan))
        /\ page.succeeded = Len(page.sent)
        /\ ~page.failed

\* a failure ends the run: the error shows, saving is reset, nothing
\* further is sent and the page stays
C27_FailureStops ==
    page.failed =>
        /\ page.pending = NoRequest
        /\ page.error # NoError
        /\ ~page.saving
        /\ page.pushed = <<>>

====
